---- MODULE Spec2Model ----
(***************************************************************************)
(* A model of src/utils/dicom_to_nii.py: the coordinate normalizer         *)
(* (convert_coords), the series loader (load_dicom_series), the volume     *)
(* reconstructor (dicom_to_volume, create_affine) and the batch driver     *)
(* (dicom_to_nifti).                                                       *)
(*                                                                         *)
(* Arrays keep numpy's 0-based indices: a vector is a function on 0..n-1,  *)
(* a matrix a function of row then column, a volume a function of slice,   *)
(* row, column.  convert_coords is modelled over the integers (every step  *)
(* of it is exact there).  create_affine is modelled in exact rational     *)
(* arithmetic, lengths counted in units of 1e-7 (the resolution of the     *)
(* np.round(..., 7) of the slice spacing).                                 *)
(***************************************************************************)
EXTENDS Integers, Sequences, FiniteSets, TLC

VARIABLES
    \* convert_coords: the arrays it mutates in place, and the call's locals
    vol, mat, xmaxi, ymaxi,
    \* history: the arrays before the last call and before the first call
    volPrev, matPrev, vol0, mat0, calls,
    \* load_dicom_series
    files, ldIdx, dataset_list, series, ldPc,
    \* dicom_to_volume
    dicom_series, dvIdx, dvVol, dvOut, dvPc,
    \* create_affine
    ipp, iop, ps, caOut, caPc,
    \* dicom_to_nifti
    template_json, bnIdx, written, bnPc

convVars == <<vol, mat, xmaxi, ymaxi, volPrev, matPrev, vol0, mat0, calls>>
loadVars == <<files, ldIdx, dataset_list, series, ldPc>>
dvVars   == <<dicom_series, dvIdx, dvVol, dvOut, dvPc>>
caVars   == <<ipp, iop, ps, caOut, caPc>>
bnVars   == <<template_json, bnIdx, written, bnPc>>
vars     == <<convVars, loadVars, dvVars, caVars, bnVars>>

----------------------------------------------------------------------------
(* Bounds of the model.                                                    *)

\* the x and y entries of the direction columns range over -MatMax..MatMax
MatMax == 1
\* rows and columns of a slice range over 1..MaxDim
MaxDim == 2
\* convert_coords is called at most MaxCalls times on the same pair
MaxCalls == 2

----------------------------------------------------------------------------
(* Small helpers for 0-based arrays.                                       *)

Abs(x) == IF x < 0 THEN -x ELSE x

RECURSIVE SumTo(_, _)
\* f[0] + ... + f[n-1]
SumTo(f, n) == IF n = 0 THEN 0 ELSE SumTo(f, n - 1) + f[n - 1]

\* np.array: the elements of an array are computed once, when it is built
Arr1(f) == f @@ f
Arr2(f) == Arr1([i \in DOMAIN f |-> Arr1(f[i])])
Arr3(f) == Arr1([i \in DOMAIN f |-> Arr2(f[i])])

\* np.dot of two 4x4 matrices
Dot4(a, b) ==
    Arr2([i \in 0..3 |-> [j \in 0..3 |-> SumTo([k \in 0..3 |-> a[i][k] * b[k][j]], 4)]])

\* np.argmax of a vector on 0..3: the first index holding the maximum
ArgMax(f) ==
    CHOOSE i \in 0..3 :
        /\ \A j \in 0..3 : f[j] <= f[i]
        /\ \A j \in 0..3 : j < i => f[j] < f[i]

\* vol.shape of a (slice, row, column) array with at least one voxel
Shape(v) ==
    LET S == Cardinality(DOMAIN v)
        R == Cardinality(DOMAIN v[0])
        C == Cardinality(DOMAIN v[0][0])
    IN  <<S, R, C>>

\* np.flip(vol, axis) for axis 1 (rows) and axis 2 (columns)
Flip(v, axis) ==
    LET sh == Shape(v)
    IN  Arr3([s \in 0..(sh[1] - 1) |-> [r \in 0..(sh[2] - 1) |-> [c \in 0..(sh[3] - 1) |->
            IF axis = 2 THEN v[s][r][sh[3] - 1 - c]
            ELSE IF axis = 1 THEN v[s][sh[2] - 1 - r][c]
            ELSE v[s][r][c]]]])

----------------------------------------------------------------------------
(* convert_coords                                                          *)

\* the x direction and y direction are flipped: diag(-1, -1, 1, 1)
convmat ==
    [i \in 0..3 |-> [j \in 0..3 |->
        IF i # j THEN 0 ELSE IF i < 2 THEN -1 ELSE 1]]

\* xmaxi = np.argmax(np.abs(mat[:,0]))
XMaxI(m) == ArgMax([i \in 0..3 |-> Abs(m[i][0])])

\* yabs[xmaxi] = 0.0 ; ymaxi = np.argmax(yabs)
YMaxI(m) ==
    LET yabs == [i \in 0..3 |-> Abs(m[i][1])]
    IN  ArgMax([yabs EXCEPT ![XMaxI(m)] = 0])

\* mat[:,3] += mat[:,col]*k ; mat[:,col] = -mat[:,col]
FlipColumnShifted(m, col, k) ==
    Arr2([i \in 0..3 |-> [j \in 0..3 |->
        IF j = 3 THEN m[i][3] + m[i][col] * k
        ELSE IF j = col THEN -m[i][col]
        ELSE m[i][j]]])

\* a slip in the translation: the extent instead of extent - 1
FlipMatOffByOne(m, col, extent) == FlipColumnShifted(m, col, extent)

\* a slip in the sign: the translation is adjusted, the column is not negated
FlipMatNoNegate(m, col, extent) ==
    [i \in 0..3 |-> [j \in 0..3 |->
        IF j = 3 THEN m[i][3] + m[i][col] * (extent - 1) ELSE m[i][j]]]

\* mat[:,3] += mat[:,col]*(vol.shape[axis] - 1) ; mat[:,col] = -mat[:,col]
FlipMat(m, col, extent) == FlipColumnShifted(m, col, extent - 1)

\* a slip in the test: the sign the wrong way round
NeedsFlipPositive(m, row, col) == m[row][col] > 0

\* if mat[xmaxi,0] < 0.0:  /  if mat[ymaxi,1] < 0.0:
NeedsFlip(m, row, col) == m[row][col] < 0

\* if mat[ymaxi,1] < 0.0: flip y.  The closing mat[mat == 0.0] = 0.0 only
\* turns -0.0 into +0.0, the same number: over the integers it changes nothing.
FlipY(v2, m2, xm, ym, sh) ==
    IF NeedsFlip(m2, ym, 1)
    THEN [vol |-> Flip(v2, 1), mat |-> FlipMat(m2, 1, sh[2]), xmaxi |-> xm, ymaxi |-> ym]
    ELSE [vol |-> v2, mat |-> m2, xmaxi |-> xm, ymaxi |-> ym]

\* if mat[xmaxi,0] < 0.0: flip x ; then the y flip
FlipX(v, m1, xm, ym, sh) ==
    IF NeedsFlip(m1, xm, 0)
    THEN FlipY(Flip(v, 2), FlipMat(m1, 0, sh[3]), xm, ym, sh)
    ELSE FlipY(v, m1, xm, ym, sh)

\* look for x and y elements with greatest magnitude, then re-order the data
Dominance(v, m1) == FlipX(v, m1, XMaxI(m1), YMaxI(m1), Shape(v))

\* The whole function: mat[:] = np.dot(convmat, mat), then the rest.  The
\* result holds the arrays after the call and the two locals.
ConvertCoords(v, m) == Dominance(v, Dot4(convmat, m))

\* direction columns and translations the model draws its affines from
Entries == (-MatMax)..MatMax
V3(a, b, c) == [i \in 0..2 |-> IF i = 0 THEN a ELSE IF i = 1 THEN b ELSE c]
\* the x and y entries of a direction column range over Entries, its z entry
\* over -1..1
Vec3s == { V3(a, b, c) : a \in Entries, b \in Entries, c \in -1..1 }
SliceSteps == { V3(1, 0, -2) }
Translations == { V3(3, -2, 1) }

\* a 4x4 affine with bottom row (0, 0, 0, 1)
Affine(c0, c1, c2, c3) ==
    [i \in 0..3 |-> [j \in 0..3 |->
        IF i = 3 THEN (IF j = 3 THEN 1 ELSE 0)
        ELSE IF j = 0 THEN c0[i]
        ELSE IF j = 1 THEN c1[i]
        ELSE IF j = 2 THEN c2[i]
        ELSE c3[i]]]

\* a volume whose voxels all hold different values
LabelVolume(S, R, C) ==
    [s \in 0..(S - 1) |-> [r \in 0..(R - 1) |-> [c \in 0..(C - 1) |->
        1 + c + C * (r + R * s)]]]

NoArray == <<>>

ConvIdle ==
    /\ vol = NoArray /\ mat = NoArray /\ xmaxi = -1 /\ ymaxi = -1
    /\ volPrev = NoArray /\ matPrev = NoArray /\ vol0 = NoArray /\ mat0 = NoArray
    /\ calls = MaxCalls

InitConvert ==
    /\ \E R \in 1..MaxDim, C \in 1..MaxDim : vol = LabelVolume(2, R, C)
    /\ \E c0 \in Vec3s, c1 \in Vec3s, c2 \in SliceSteps, c3 \in Translations :
           mat = Affine(c0, c1, c2, c3)
    /\ xmaxi = -1 /\ ymaxi = -1
    /\ volPrev = vol /\ matPrev = mat /\ vol0 = vol /\ mat0 = mat
    /\ calls = 0

\* convert_coords(vol, mat), in place
CallConvertCoords ==
    /\ calls < MaxCalls
    /\ \E out \in {ConvertCoords(vol, mat)} :
           /\ vol' = out.vol
           /\ mat' = out.mat
           /\ xmaxi' = out.xmaxi
           /\ ymaxi' = out.ymaxi
    /\ volPrev' = vol
    /\ matPrev' = mat
    /\ calls' = calls + 1
    /\ UNCHANGED <<vol0, mat0, loadVars, dvVars, caVars, bnVars>>

----------------------------------------------------------------------------
(* load_dicom_series                                                       *)

\* at most MaxFiles files are handed to load_dicom_series
MaxFiles == 3

\* The value of a dataset's InstanceNumber attribute: absent (the attribute
\* access raises AttributeError), present but not a number (ValueError),
\* present with the value None, as an element of zero length reads (int(None)
\* raises TypeError), or an integer.
InstanceNumbers ==
    { [kind |-> "absent", value |-> 0], [kind |-> "invalid", value |-> 0],
      [kind |-> "none", value |-> 0],
      [kind |-> "int", value |-> 1], [kind |-> "int", value |-> 2] }

\* A file: its name, whether pydicom.dcmread can parse it, and the
\* InstanceNumber of the dataset read from it.
FileRecords(names) == [name : names, readable : BOOLEAN, InstanceNumber : InstanceNumbers]

\* int(ds.InstanceNumber) raises an exception the except clause does not
\* name: TypeError, for a value that is neither a number nor a string
Uncaught(ds) == ds.InstanceNumber.kind = "none"

\* try: i = int(ds.InstanceNumber)  except (AttributeError, ValueError): i = -1
InstanceKey(ds) ==
    IF ds.InstanceNumber.kind \in {"absent", "invalid"} THEN -1
    ELSE ds.InstanceNumber.value

RECURSIVE InsertByKey(_, _)
\* t placed after every tuple of the sorted list whose key is <= its own
InsertByKey(sorted, t) ==
    IF sorted = <<>> THEN <<t>>
    ELSE IF t[1] < Head(sorted)[1] THEN <<t>> \o sorted
    ELSE <<Head(sorted)>> \o InsertByKey(Tail(sorted), t)

RECURSIVE SortByKey(_)
\* dataset_list.sort(key=lambda t: t[0]): list.sort is stable
SortByKey(l) ==
    IF l = <<>> THEN <<>>
    ELSE InsertByKey(SortByKey(SubSeq(l, 1, Len(l) - 1)), l[Len(l)])

\* for f in files: the loop runs over the list as given; sorted_files, the
\* names in lexical order, is computed and never used
LoopFiles(l) == l

\* series = [t[1] for t in dataset_list]
Datasets(l) == [k \in 1..Len(l) |-> l[k][2]]

LoadIdle ==
    /\ files = <<>> /\ ldIdx = 0 /\ dataset_list = <<>> /\ series = <<>>
    /\ ldPc = "idle"

\* every list of at most MaxFiles files with different names, in any order
InitLoad ==
    /\ \E n \in 0..MaxFiles :
         \E l \in [1..n -> FileRecords(1..n)] :
            /\ \A a, b \in 1..n : a # b => l[a].name # l[b].name
            /\ files = l
    /\ ldIdx = 0 /\ dataset_list = <<>> /\ series = <<>>
    /\ ldPc = "read"

\* one turn of the loop: ds = pydicom.dcmread(f), which raises on a file it
\* cannot parse; the key, whose computation raises TypeError out of the
\* function when the except clause does not catch; then
\* dataset_list.append((i, ds))
LoadRead ==
    /\ ldPc = "read"
    /\ ldIdx < Len(files)
    /\ LET ds == LoopFiles(files)[ldIdx + 1]
       IN  IF ~ds.readable
           THEN /\ ldPc' = "raised"
                /\ UNCHANGED <<dataset_list, ldIdx>>
           ELSE IF Uncaught(ds)
           THEN /\ ldPc' = "TypeError"
                /\ UNCHANGED <<dataset_list, ldIdx>>
           ELSE /\ dataset_list' = Append(dataset_list, <<InstanceKey(ds), ds>>)
                /\ ldIdx' = ldIdx + 1
                /\ ldPc' = ldPc
    /\ UNCHANGED <<files, series, convVars, dvVars, caVars, bnVars>>

\* after the loop: the sort, the projection and the return
LoadSortReturn ==
    /\ ldPc = "read"
    /\ ldIdx = Len(files)
    /\ dataset_list' = SortByKey(dataset_list)
    /\ series' = Datasets(dataset_list')
    /\ ldPc' = "done"
    /\ UNCHANGED <<files, ldIdx, convVars, dvVars, caVars, bnVars>>

----------------------------------------------------------------------------
(* Exact rational arithmetic for create_affine.  A rational is a record    *)
(* [n, d] in lowest terms with d > 0, so that equal numbers are equal      *)
(* records.                                                                *)

RECURSIVE GCD(_, _)
GCD(a, b) == IF b = 0 THEN a ELSE GCD(b, a % b)

MkRat(n, d) ==
    LET g == GCD(Abs(n), Abs(d))
        sg == IF d < 0 THEN -1 ELSE 1
    IN  [n |-> (sg * n) \div g, d |-> (sg * d) \div g]

RatOf(k) == [n |-> k, d |-> 1]
RAdd(a, b) == MkRat(a.n * b.d + b.n * a.d, a.d * b.d)
RSub(a, b) == MkRat(a.n * b.d - b.n * a.d, a.d * b.d)
RMul(a, b) == MkRat(a.n * b.n, a.d * b.d)
RDiv(a, b) == MkRat(a.n * b.d, a.d * b.n)
RAbs(a) == [n |-> Abs(a.n), d |-> a.d]
RLt(a, b) == a.n * b.d < b.n * a.d
RLe(a, b) == a.n * b.d <= b.n * a.d
\* np.sign
RSign(a) == IF a.n > 0 THEN 1 ELSE IF a.n < 0 THEN -1 ELSE 0

RECURSIVE ISqrt(_)
\* the integer part of the square root of n >= 0
ISqrt(n) ==
    IF n < 2 THEN n
    ELSE LET s == 2 * ISqrt(n \div 4)
         IN  IF (s + 1) * (s + 1) <= n THEN s + 1 ELSE s

\* np.sqrt of a rational whose numerator and denominator are squares
RSqrt(a) == MkRat(ISqrt(a.n), ISqrt(a.d))

RECURSIVE Pow10(_)
Pow10(k) == IF k = 0 THEN 1 ELSE 10 * Pow10(k - 1)

\* np.sum(np.square(w)) of a 3-vector of rationals
SumSquares(w) == RAdd(RAdd(RMul(w[0], w[0]), RMul(w[1], w[1])), RMul(w[2], w[2]))

\* np.dot and np.cross of 3-vectors of rationals
RDot(a, b) == RAdd(RAdd(RMul(a[0], b[0]), RMul(a[1], b[1])), RMul(a[2], b[2]))
RCross(a, b) ==
    [i \in 0..2 |->
        LET j == (i + 1) % 3
            k == (i + 2) % 3
        IN  RSub(RMul(a[j], b[k]), RMul(a[k], b[j]))]

----------------------------------------------------------------------------
(* create_affine                                                           *)

\* the digits of the threshold 1e-6
TolDigits == 6
\* the digits np.round keeps of the slice spacing
RoundDigits == 7

\* 1e-6 as a length, in units of 1e-7, and as a plain number
TolLen == RatOf(Pow10(RoundDigits - TolDigits))
TolOne == MkRat(1, Pow10(TolDigits))

\* a[(np.abs(a) < 1e-6)] = 0.0, on one entry
Snap(a, tol) == IF RLt(RAbs(a), tol) THEN RatOf(0) ELSE a

\* a slip: the rounding of small values to zero is left out
LstSqSnapNone(a) == a

\* x[(np.abs(x) < 1e-6)] = 0.0 on an entry of the least-squares solution
LstSqSnap(a) == Snap(a, TolLen)

Rows(a) == Cardinality(DOMAIN a)

\* a slip: the slope taken over n intervals between n slices
SlopeOverCount(y, n) ==
    IF n = 1 THEN RatOf(0) ELSE MkRat(y[n - 1] - y[0], n)

\* x[0] of np.linalg.lstsq(A, y) for A = [arange(n), ones(n)]: the slope of
\* the least-squares line; A has rank 1 for n = 1, and the minimum-norm
\* solution then has slope 0
LstSqSlope(y, n) ==
    LET Si  == SumTo([i \in 0..(n - 1) |-> i], n)
        Sii == SumTo([i \in 0..(n - 1) |-> i * i], n)
        Sy  == SumTo(y, n)
        Siy == SumTo([i \in 0..(n - 1) |-> i * y[i]], n)
    IN  IF n = 1 THEN RatOf(0)
        ELSE MkRat(n * Siy - Si * Sy, n * Sii - Si * Si)

\* x[1] of the same solution: the intercept, mean(y) - slope * mean(i)
LstSqIntercept(y, n) ==
    LET Si == SumTo([i \in 0..(n - 1) |-> i], n)
        Sy == SumTo(y, n)
    IN  RDiv(RSub(RatOf(Sy), RMul(LstSqSlope(y, n), RatOf(Si))), RatOf(n))

LCM(a, b) == (a * b) \div GCD(a, b)

\* np.round(np.sqrt(np.sum(np.square(w))), 7) in units of 1e-7: the integer
\* nearest to the norm of w, a tie going to the even one.  With L the common
\* denominator of w and Q the sum of the squared numerators over L, the norm
\* is sqrt(Q) / L.
RoundNorm(w) ==
    LET L == LCM(LCM(w[0].d, w[1].d), w[2].d)
        num(k) == w[k].n * (L \div w[k].d)
        Q == num(0) * num(0) + num(1) * num(1) + num(2) * num(2)
        r == ISqrt(4 * Q)
        up == (r + L) \div (2 * L)
        tie == ((2 * up - 1) * L) * ((2 * up - 1) * L) = 4 * Q
    IN  IF tie /\ up % 2 = 1 THEN up - 1 ELSE up

\* w /= np.sqrt(np.sum(np.square(w)))
Normalize(w) ==
    LET nrm == RSqrt(SumSquares(w))
    IN  [i \in 0..2 |-> RDiv(w[i], nrm)]

\* The whole function: the affine, the pixdim and what it wrote to stderr.
CreateAffine(ippA, iopA, psA) ==
    LET n == Rows(ippA)
        col(k) == [i \in 0..(n - 1) |-> ippA[i][k]]
        vec == [k \in 0..2 |-> LstSqSnap(LstSqSlope(col(k), n))]
        pos == [k \in 0..2 |-> LstSqSnap(LstSqIntercept(col(k), n))]
        sp0 == psA[0][0]
        sp1 == psA[0][1]
        dev == SumTo([i \in 0..(n - 1) |->
                   Abs(psA[i][0] - sp0) + Abs(psA[i][1] - sp1)], n)
        warnSpacing == RLt(RMul(RatOf(sp0), TolOne), RatOf(dev))
        sp2 == RoundNorm(vec)
        avg == [k \in 0..5 |-> MkRat(SumTo([i \in 0..(n - 1) |-> iopA[i][k]], n), n)]
        un == Normalize([k \in 0..2 |-> avg[k]])
        vn == Normalize([k \in 0..2 |-> avg[k + 3]])
        u == [k \in 0..2 |-> Snap(un[k], TolOne)]
        v == [k \in 0..2 |-> Snap(vn[k], TolOne)]
        m == [i \in 0..3 |-> [j \in 0..3 |->
                 IF i = 3 THEN RatOf(IF j = 3 THEN 1 ELSE 0)
                 ELSE IF j = 0 THEN RMul(u[i], RatOf(sp0))
                 ELSE IF j = 1 THEN RMul(v[i], RatOf(sp1))
                 ELSE IF j = 2 THEN vec[i]
                 ELSE pos[i]]]
        dv == RDot(vec, RCross(u, v))
        qfac == RSign(dv)
        warnOrtho == RLt(TolLen, RAbs(RSub(RMul(RatOf(qfac), dv), RatOf(sp2))))
    IN  [mat |-> m,
         pixdim |-> <<qfac, sp0, sp1, sp2>>,
         u |-> u, v |-> v,
         stderr |-> (IF warnSpacing THEN <<"Pixel spacing is inconsistent!">> ELSE <<>>)
                    \o (IF warnOrtho THEN <<"Non-orthogonal volume!">> ELSE <<>>)]

\* at most MaxSlices slices in a series handed to create_affine
MaxSlices == 5

V6(a, b, c, d, e, f) ==
    [i \in 0..5 |-> IF i = 0 THEN a ELSE IF i = 1 THEN b ELSE IF i = 2 THEN c
                    ELSE IF i = 3 THEN d ELSE IF i = 4 THEN e ELSE f]
V2(a, b) == [i \in 0..1 |-> IF i = 0 THEN a ELSE b]

\* Inputs, lengths in units of 1e-7: first positions, slice steps (with
\* components on both sides of 1e-6 = 10 units), an offset of the last
\* slice, orientations whose norms are whole numbers, pixel spacings.
FirstPositions == { V3(0, 0, 0), V3(-15, 3, 20), V3(-15, 30, 20) }
Steps == { V3(a, b, c) : a \in {0, 12}, b \in {0, -5}, c \in {-20, 0, 20} }
LastOffsets == { 0, 3 }
Orientations ==
    { V6(1, 0, 0, 0, 1, 0), V6(0, 1, 0, 1, 0, 0), V6(3, 4, 0, -4, 3, 0),
      V6(1, 0, 0, 0, 0, 1), V6(2, 0, 0, 0, 2, 0) }
PixelSpacings == { V2(10, 10), V2(5, 25) }

AffineIdle ==
    /\ ipp = NoArray /\ iop = NoArray /\ ps = NoArray /\ caOut = NoArray
    /\ caPc = "idle"

InitAffine ==
    /\ \E n \in 1..MaxSlices, p0 \in FirstPositions, d \in Steps, e \in LastOffsets :
         ipp = [i \in 0..(n - 1) |-> [k \in 0..2 |->
                   p0[k] + i * d[k] + (IF i = n - 1 /\ k = 2 THEN e ELSE 0)]]
    /\ \E o \in Orientations : iop = [i \in DOMAIN ipp |-> o]
    /\ \E s \in PixelSpacings, e \in {0, 1} :
         ps = [i \in DOMAIN ipp |->
                  IF i = Rows(ipp) - 1 THEN V2(s[0], s[1] + e) ELSE s]
    /\ caOut = NoArray
    /\ caPc = "call"

\* mat, pixdim = create_affine(ipp, iop, ps)
CallCreateAffine ==
    /\ caPc = "call"
    /\ caOut' = CreateAffine(ipp, iop, ps)
    /\ caPc' = "done"
    /\ UNCHANGED <<ipp, iop, ps, convVars, loadVars, dvVars, bnVars>>

----------------------------------------------------------------------------
(* dicom_to_volume                                                         *)

\* A pixel array: its shape (one or two dimensions) and its elements, the
\* element at a flat index k being base + k.
PixelArray(shape, base) == [shape |-> shape, base |-> base]

PixelShapes ==
    { <<c>> : c \in 1..MaxDim } \cup { <<r, c>> : r \in 1..MaxDim, c \in 1..MaxDim }

\* an optional attribute of a dataset: <<>> when absent, <<value>> when set
Rescales ==
    { [RescaleSlope |-> <<>>, RescaleIntercept |-> <<>>],
      [RescaleSlope |-> <<2>>, RescaleIntercept |-> <<3>>] }

\* try: slope = float(ds.RescaleSlope)  except ...: slope = 1.0
Slope(ds) == IF ds.RescaleSlope = <<>> THEN 1 ELSE ds.RescaleSlope[1]

\* try: intercept = float(ds.RescaleIntercept)  except ...: intercept = 0.0
Intercept(ds) == IF ds.RescaleIntercept = <<>> THEN 0 ELSE ds.RescaleIntercept[1]

\* shape = (n,) + dicom_series[0].pixel_array.shape, without the leading n
SliceShape(ser) == ser[0].pixel_array.shape

\* numpy's rule for vol[i,:,:] = image: the image's shape, aligned to the
\* right of (rows, cols), holds in each place that extent or 1
CanAssign(shape, rows, cols) ==
    IF Len(shape) = 2
    THEN shape[1] \in {1, rows} /\ shape[2] \in {1, cols}
    ELSE shape[1] \in {1, cols}

\* the element of image that numpy's broadcasting puts at (r, c)
BroadcastAt(image, r, c) ==
    LET sh == image.shape
    IN  IF Len(sh) = 2
        THEN image.base + (IF sh[1] = 1 THEN 0 ELSE r) * sh[2]
                        + (IF sh[2] = 1 THEN 0 ELSE c)
        ELSE image.base + (IF sh[1] = 1 THEN 0 ELSE c)

\* image*slope + intercept, as it lands in vol[i,:,:]
CalibratedSlice(ds, rows, cols) ==
    [r \in 0..(rows - 1) |-> [c \in 0..(cols - 1) |->
        BroadcastAt(ds.pixel_array, r, c) * Slope(ds) + Intercept(ds)]]

VolumeIdle ==
    /\ dicom_series = NoArray /\ dvIdx = 0 /\ dvVol = NoArray /\ dvOut = NoArray
    /\ dvPc = "idle"

\* Series of at most MaxFiles slices.  Slice 0 is two-dimensional; the other
\* slices have any shape.  The positions are regular, the orientation and
\* the pixel spacing the same on every slice.
InitVolume ==
    /\ \E n \in 1..MaxFiles, d \in {V3(0, 0, 20), V3(0, 12, -20)} :
         \E shapes \in [0..(n - 1) -> PixelShapes], rs \in [0..(n - 1) -> Rescales] :
            /\ Len(shapes[0]) = 2
            /\ dicom_series =
                 [i \in 0..(n - 1) |->
                    [pixel_array |-> PixelArray(shapes[i], 10 * (i + 1)),
                     RescaleSlope |-> rs[i].RescaleSlope,
                     RescaleIntercept |-> rs[i].RescaleIntercept,
                     PixelSpacing |-> V2(10, 10),
                     ImagePositionPatient |-> [k \in 0..2 |-> i * d[k]],
                     ImageOrientationPatient |-> V6(1, 0, 0, 0, 1, 0)]]
    /\ dvIdx = 0 /\ dvVol = NoArray /\ dvOut = NoArray
    /\ dvPc = "loop"

\* one turn of the loop: vol[i,:,:] = image*slope + intercept, which raises
\* ValueError when the image cannot be broadcast to (rows, cols)
VolumeAssign ==
    /\ dvPc = "loop"
    /\ dvIdx < Rows(dicom_series)
    /\ LET ds == dicom_series[dvIdx]
           sh == SliceShape(dicom_series)
       IN  IF CanAssign(ds.pixel_array.shape, sh[1], sh[2])
           THEN /\ dvVol' = [i \in 0..dvIdx |->
                                IF i = dvIdx THEN CalibratedSlice(ds, sh[1], sh[2])
                                ELSE dvVol[i]]
                /\ dvIdx' = dvIdx + 1
                /\ dvPc' = dvPc
           ELSE /\ dvPc' = "raised"
                /\ UNCHANGED <<dvVol, dvIdx>>
    /\ UNCHANGED <<dicom_series, dvOut, convVars, loadVars, caVars, bnVars>>

\* after the loop: affine, pixdim = create_affine(ipp, iop, ps) ; return
VolumeReturn ==
    /\ dvPc = "loop"
    /\ dvIdx = Rows(dicom_series)
    /\ LET a == CreateAffine([i \in DOMAIN dicom_series |-> dicom_series[i].ImagePositionPatient],
                             [i \in DOMAIN dicom_series |-> dicom_series[i].ImageOrientationPatient],
                             [i \in DOMAIN dicom_series |-> dicom_series[i].PixelSpacing])
       IN  dvOut' = [vol |-> dvVol, pixdim |-> a.pixdim, affine |-> a.mat]
    /\ dvPc' = "returned"
    /\ UNCHANGED <<dicom_series, dvIdx, dvVol, convVars, loadVars, caVars, bnVars>>

----------------------------------------------------------------------------
(* dicom_to_nifti                                                          *)

\* at most MaxBatch entries in template_json
MaxBatch == 2

\* What lies on disk for an entry's series: slices that convert, no file at
\* all, files none of which can be read, slices of different shapes.
SeriesKinds == {"good", "nofiles", "unreadable", "mismatch"}

\* An entry of template_json is a string; value.split("_") gives its fields,
\* each of them a string.
BatchEntries == [fields : {<<"p1", "0">>, <<"p2", "1">>, <<"p1">>}, disk : SeriesKinds]

\* p_id = value.split("_")[0] ; index = value.split("_")[1] ;
\* dicom_path = glob.glob(...)[index].  The second field is missing from a
\* value without "_" (IndexError); when there, it is a string, and a list
\* indexed by a string raises TypeError whatever the list holds.
SelectPath(value) ==
    IF Len(value.fields) < 2 THEN "IndexError" ELSE "TypeError"

BatchIdle ==
    /\ template_json = <<>> /\ bnIdx = 0 /\ written = <<>> /\ bnPc = "idle"

InitBatch ==
    /\ \E n \in 0..MaxBatch : template_json \in [1..n -> BatchEntries]
    /\ bnIdx = 0
    /\ written = <<>>
    /\ bnPc = "loop"

\* one turn of the loop over template_json: the path selection raises, and
\* nothing in dicom_to_nifti catches it
BatchEntry ==
    /\ bnPc = "loop"
    /\ bnIdx < Len(template_json)
    /\ bnPc' = SelectPath(template_json[bnIdx + 1])
    /\ UNCHANGED <<template_json, bnIdx, written, convVars, loadVars, dvVars, caVars>>

\* the loop is over: the function returns
BatchReturn ==
    /\ bnPc = "loop"
    /\ bnIdx = Len(template_json)
    /\ bnPc' = "returned"
    /\ UNCHANGED <<template_json, bnIdx, written, convVars, loadVars, dvVars, caVars>>

----------------------------------------------------------------------------
(* Specifications: one per function, and the program as a whole.           *)

InitC == InitConvert /\ LoadIdle /\ VolumeIdle /\ AffineIdle /\ BatchIdle
InitL == ConvIdle /\ InitLoad /\ VolumeIdle /\ AffineIdle /\ BatchIdle
InitV == ConvIdle /\ LoadIdle /\ InitVolume /\ AffineIdle /\ BatchIdle
InitA == ConvIdle /\ LoadIdle /\ VolumeIdle /\ InitAffine /\ BatchIdle
InitB == ConvIdle /\ LoadIdle /\ VolumeIdle /\ AffineIdle /\ InitBatch

NextConvert == CallConvertCoords
NextLoad == LoadRead \/ LoadSortReturn
NextVolume == VolumeAssign \/ VolumeReturn
NextAffine == CallCreateAffine
NextBatch == BatchEntry \/ BatchReturn

SpecConvert == InitC /\ [][NextConvert]_vars
SpecLoad == InitL /\ [][NextLoad]_vars
SpecVolume == InitV /\ [][NextVolume]_vars
SpecAffine == InitA /\ [][NextAffine]_vars
SpecBatch == InitB /\ [][NextBatch]_vars

Init == InitC \/ InitL \/ InitV \/ InitA \/ InitB

Next ==
    \/ CallConvertCoords
    \/ LoadRead
    \/ LoadSortReturn
    \/ VolumeAssign
    \/ VolumeReturn
    \/ CallCreateAffine
    \/ BatchEntry
    \/ BatchReturn

Spec == Init /\ [][Next]_vars

----------------------------------------------------------------------------
(* Properties of convert_coords, checked under SpecConvert.                *)

\* coordinate i of the point the affine m maps the voxel index
\* (c, r, sl, 1) to
Coord(m, i, c, r, sl) == m[i][0] * c + m[i][1] * r + m[i][2] * sl + m[i][3]

\* vol and mat describe what volPrev described with mc, the rows reversed
\* iff fr and the columns iff fc
SameGeometry(fr, fc, mc, sh) ==
    \A sl \in 0..(sh[1] - 1), r \in 0..(sh[2] - 1), c \in 0..(sh[3] - 1) :
        LET r2 == IF fr THEN sh[2] - 1 - r ELSE r
            c2 == IF fc THEN sh[3] - 1 - c ELSE c
        IN  /\ vol[sl][r2][c2] = volPrev[sl][r][c]
            /\ \A i \in 0..3 : Coord(mat, i, c2, r2, sl) = Coord(mc, i, c, r, sl)

\* C1: a call of convert_coords keeps the shape of the volume and moves every
\* voxel (s, r, c) to (s, r or R-1-r, c or C-1-c), the same choice for all
\* voxels, where the new matrix maps it to diag(-1,-1,1,1) times the point
\* the old matrix mapped it to; no value is lost, duplicated or changed.
C1_GeometryPreserved ==
    calls >= 1 =>
        \E mc \in {Dot4(convmat, matPrev)}, sh \in {Shape(volPrev)} :
            /\ Shape(vol) = sh
            /\ \E fr \in BOOLEAN, fc \in BOOLEAN : SameGeometry(fr, fc, mc, sh)

\* C1 witness: a call that reversed both the rows and the columns of a volume
\* with more than one row and more than one column
C1_Witness ==
    /\ calls >= 1
    /\ Shape(vol)[2] > 1 /\ Shape(vol)[3] > 1
    /\ vol = Flip(Flip(volPrev, 2), 1)
    /\ SameGeometry(TRUE, TRUE, Dot4(convmat, matPrev), Shape(volPrev))

\* C2 as stated: two calls of convert_coords give back the original volume
\* and the original affine.
C2_Involution == calls = 2 => (vol = vol0 /\ mat = mat0)

\* C2 amended: two calls give back the original volume and affine when the
\* original affine's entries at (xmaxi, 0) and (ymaxi, 1) are not negative.
C2_InvolutionOnNormalized ==
    (/\ calls = 2
     /\ mat0[XMaxI(mat0)][0] >= 0
     /\ mat0[YMaxI(mat0)][1] >= 0)
    => (vol = vol0 /\ mat = mat0)

\* C2 witness: the first call flipped the volume and the second undid it
C2_Witness ==
    /\ calls = 2
    /\ mat0[XMaxI(mat0)][0] >= 0
    /\ mat0[YMaxI(mat0)][1] >= 0
    /\ volPrev # vol0
    /\ matPrev # mat0
    /\ vol = vol0 /\ mat = mat0

\* C3: after a call, the entries of the matrix at (xmaxi, 0) and (ymaxi, 1)
\* are not negative, xmaxi and ymaxi being the indices of the greatest
\* magnitudes of columns 0 and 1 (row xmaxi left out for ymaxi) of the
\* matrix multiplied by diag(-1,-1,1,1).
C3_DominantNonNegative ==
    calls >= 1 =>
        \E mc \in {Dot4(convmat, matPrev)} :
            /\ xmaxi = XMaxI(mc)
            /\ ymaxi = YMaxI(mc)
            /\ mat[xmaxi][0] >= 0
            /\ mat[ymaxi][1] >= 0

\* C3 witness: both entries were negative after the multiplication
C3_Witness ==
    /\ calls >= 1
    /\ xmaxi # ymaxi
    /\ Dot4(convmat, matPrev)[xmaxi][0] < 0
    /\ Dot4(convmat, matPrev)[ymaxi][1] < 0
    /\ mat[xmaxi][0] > 0
    /\ mat[ymaxi][1] > 0

\* C10 as stated: the two dominance indices of a call are always different.
C10_IndicesDistinct == calls >= 1 => xmaxi # ymaxi

----------------------------------------------------------------------------
(* Properties of load_dicom_series, checked under SpecLoad.                *)

\* the places of the list l that hold the record x
Places(l, x) == { k \in 1..Len(l) : l[k] = x }

\* the place of x in a list that holds it once
PlaceIn(l, x) == CHOOSE k \in 1..Len(l) : l[k] = x

HasIndex(ds) == ds.InstanceNumber.kind = "int"

\* C4 as stated: load_dicom_series returns every input record exactly once,
\* in ascending order of instance index; a record whose index is missing or
\* unparseable gets key -1 and so comes before every record with an index
\* >= 0; records with equal keys keep the order they had in the input; and
\* the function raises only on a file that cannot be read.
C4_LoadOrdered ==
    /\ ldPc \in {"raised", "TypeError"} => \E k \in 1..Len(files) : ~files[k].readable
    /\ ldPc = "done" =>
        /\ Len(series) = Len(files)
        /\ \A k \in 1..Len(files) : Cardinality(Places(series, files[k])) = 1
        /\ \A i \in 1..Len(series) :
              /\ dataset_list[i][2] = series[i]
              /\ HasIndex(series[i]) => dataset_list[i][1] = series[i].InstanceNumber.value
              /\ ~HasIndex(series[i]) => dataset_list[i][1] = -1
        /\ \A i, j \in 1..Len(series) :
              i < j =>
                /\ dataset_list[i][1] <= dataset_list[j][1]
                /\ ~(HasIndex(series[i]) /\ ~HasIndex(series[j])
                        /\ series[i].InstanceNumber.value >= 0)
                /\ dataset_list[i][1] = dataset_list[j][1]
                      => PlaceIn(files, series[i]) < PlaceIn(files, series[j])

\* C4 witness: three files returned in another order than given, two of them
\* with equal keys and names out of lexical order, one without an index
\* given after one with an index
C4_Witness ==
    /\ ldPc = "done"
    /\ Len(files) = 3
    /\ series # files
    /\ \E i, j \in 1..3 :
          /\ i < j
          /\ dataset_list[i][1] = dataset_list[j][1]
          /\ series[i].name > series[j].name
    /\ \E a, b \in 1..3 : a < b /\ HasIndex(files[a]) /\ ~HasIndex(files[b])

----------------------------------------------------------------------------
(* Properties of create_affine, checked under SpecAffine.                  *)

\* the series handed to create_affine has regular positions ipp[i] = p0 + i*d
Regular ==
    /\ Rows(ipp) >= 2
    /\ \A i \in DOMAIN ipp, k \in 0..2 :
          ipp[i][k] = ipp[0][k] + i * (ipp[1][k] - ipp[0][k])
    /\ \A i \in DOMAIN iop : iop[i] = iop[0]

StepD == [k \in 0..2 |-> ipp[1][k] - ipp[0][k]]

\* an integer length that is 0 or at least 1e-6 in magnitude
NotSmall(x) == x = 0 \/ Abs(x) >= TolLen.n

\* the integer s is within 1e-6 of the norm of the integer vector d
NearNorm(s, d) ==
    LET Q == d[0] * d[0] + d[1] * d[1] + d[2] * d[2]
        T == TolLen.n
    IN  /\ s >= 0
        /\ (s <= T \/ (s - T) * (s - T) <= Q)
        /\ Q <= (s + T) * (s + T)

\* what C5 says of the result for a regular series
RecoversLine ==
    /\ \A k \in 0..2 :
          /\ caOut.mat[k][2] = RatOf(StepD[k])
          /\ caOut.mat[k][3] = RatOf(ipp[0][k])
    /\ NearNorm(caOut.pixdim[4], StepD)

\* the 5-slice scenario, its lengths in the model's units: step (0, 0, 20),
\* first position (0, 0, 0), orientation (1,0,0,0,1,0), pixel spacing 10
Scenario ==
    /\ Rows(ipp) = 5
    /\ \A i \in DOMAIN ipp : ipp[i] = V3(0, 0, 20 * i)
    /\ \A i \in DOMAIN iop : iop[i] = V6(1, 0, 0, 0, 1, 0)
    /\ \A i \in DOMAIN ps : ps[i] = V2(10, 10)

\* C5 as stated: for every regular series of N >= 2 slices with a nonzero
\* step d, column 2 of the affine is d, column 3 is p0 and the slice spacing
\* is within 1e-6 of the norm of d.
C5_RegularSeries ==
    (caPc = "done" /\ Regular /\ StepD # V3(0, 0, 0)) => RecoversLine

\* C5 amended: the same, for the series whose components of d and p0 are
\* each 0 or at least 1e-6 in magnitude; and the 5-slice scenario gives the
\* slice spacing of its step and qfac = 1.
C5_RegularSeriesNotSmall ==
    /\ (/\ caPc = "done" /\ Regular /\ StepD # V3(0, 0, 0)
        /\ \A k \in 0..2 : NotSmall(StepD[k]) /\ NotSmall(ipp[0][k]))
       => RecoversLine
    /\ (caPc = "done" /\ Scenario)
       => (caOut.pixdim[4] = 20 /\ caOut.pixdim[1] = 1)

\* C5 witness: an oblique regular series of at least three slices away from
\* the origin, its slice spacing not the norm of d itself but its rounding
C5_Witness ==
    /\ caPc = "done" /\ Regular
    /\ Rows(ipp) >= 3
    /\ StepD[0] # 0 /\ StepD[2] # 0 /\ ipp[0][1] # 0
    /\ \A k \in 0..2 : NotSmall(StepD[k]) /\ NotSmall(ipp[0][k])
    /\ RecoversLine
    /\ caOut.pixdim[4] * caOut.pixdim[4] #
           StepD[0] * StepD[0] + StepD[1] * StepD[1] + StepD[2] * StepD[2]

\* C6 as stated: the first element of the pixdim is +1 or -1, never 0.
C6_QfacIsSign == caPc = "done" => caOut.pixdim[1] \in {1, -1}

----------------------------------------------------------------------------
(* Properties of dicom_to_volume and dicom_to_nifti.                       *)

\* C7 as stated: dicom_to_volume never returns a volume for a series in
\* which a slice's pixel-array shape differs from that of slice 0.
C7_ShapeMismatchFails ==
    dvPc = "returned" =>
        \A i \in DOMAIN dicom_series :
            dicom_series[i].pixel_array.shape = dicom_series[0].pixel_array.shape

Fatal(entry) == entry.disk # "good"

\* C8 as stated: when dicom_to_nifti has ended and an entry's series had a
\* fatal condition, every other entry with a good series was written
\* exactly once.
C8_OthersWritten ==
    bnPc \notin {"idle", "loop"} =>
        \A k \in 1..Len(template_json) :
            Fatal(template_json[k]) =>
                \A j \in 1..Len(template_json) :
                    (j # k /\ ~Fatal(template_json[j]))
                        => Cardinality(Places(written, j)) = 1

====
